---- MODULE Spec2Model ----
(***************************************************************************)
(* Model of the ForecastingHub component                                   *)
(* (src/frontend/dashboard/components/ForecastingHub.tsx): the forecast    *)
(* prop, the dayIndex / activeTab state, the memoized dynamicSummary and   *)
(* what the component renders.                                             *)
(*                                                                         *)
(* Numbers.  JavaScript numbers are modelled as integers, and every        *)
(* quotient the code forms (stressRatio, avgDailyGdd, gddProgress, the     *)
(* argument of Math.ceil) as an exact fraction [num, den] with den > 0.    *)
(* Optional values.  A value that may be undefined / null is a sequence    *)
(* of length at most one: <<>> is undefined, <<v>> is the value v.         *)
(***************************************************************************)
EXTENDS Integers, Sequences, FiniteSets, TLC

VARIABLES forecast, dayIndex, activeTab, memoDeps, dynamicSummary, rendered,
          calls, accs

vars == <<forecast, dayIndex, activeTab, memoDeps, dynamicSummary, rendered,
          calls, accs>>

----------------------------------------------------------------------------
(* Optional values and exact fractions *)

NULL == <<>>

Some(v) == <<v>>

Val(o) == o[1]

\* x || 0 on an optional number: undefined and 0 both give 0
OrZero(o) == IF o = NULL \/ Val(o) = 0 THEN 0 ELSE Val(o)

\* truthiness of an optional boolean
Truthy(o) == o # NULL /\ Val(o)

\* the first argument taken as it is
MaxFirst(a, b) == a

\* Math.max
Max(a, b) == IF a >= b THEN a ELSE b

Rat(n, d) == [num |-> n, den |-> d]

RatLT(a, b) == a.num * b.den < b.num * a.den

RatGT(a, b) == RatLT(b, a)

RatMin(a, b) == IF RatLT(b, a) THEN b ELSE a

\* a / b for b > 0
RatDiv(a, b) == Rat(a.num * b.den, a.den * b.num)

RatMul(a, b) == Rat(a.num * b.num, a.den * b.den)

\* rounding down where the code rounds up
Floor(r) == r.num \div r.den

\* Math.ceil of a fraction with positive denominator
Ceil(r) == -((-r.num) \div r.den)

----------------------------------------------------------------------------
(* The inputs: day records and forecast series *)

\* bound: the number of freely chosen leading days of a series
MaxHead == 2

\* bound: the number of identical trailing days appended to a long series
MaxPad == 18

\* bound: the number of days without growth that end the cold-spell series
MaxChill == 11

Risk(t) == [type |-> t]

\* a day record; the sensor readings are absent unless WithSensors sets them
Day(g, p, r, i, s, sp) ==
    [gdd |-> g, precipitation |-> p, risks |-> r, irrigation_needed |-> i,
     crop_stage |-> s, stage_progress |-> sp,
     vpd |-> NULL, vpd_status |-> NULL, humidity |-> NULL, wind_speed |-> NULL,
     soil_moisture |-> NULL, soil_status |-> NULL, soil_temperature |-> NULL,
     radiation |-> NULL]

Status(s) == [status |-> s]

\* the day with its optional sensor readings
WithSensors(day, v, vs, h, w, sm, ss, st, rad) ==
    [day EXCEPT !.vpd = v, !.vpd_status = vs, !.humidity = h, !.wind_speed = w,
                !.soil_moisture = sm, !.soil_status = ss, !.soil_temperature = st,
                !.radiation = rad]

DayDry == Day(Some(10), Some(0), Some(<<>>), Some(TRUE), Some("Tillering"), Some(40))

\* a hot, windy day with every sensor reporting
DayHeat ==
    WithSensors(Day(Some(12), Some(5), Some(<<Risk("Heat Stress")>>), Some(FALSE),
                    Some("Tillering"), Some(55)),
                Some(2), Some(Status("High")), Some(85), Some(12),
                Some(20), Some(Status("Dry")), Some(31), Some(650))

DayBare == Day(NULL, NULL, NULL, NULL, NULL, NULL)

DayScorch ==
    Day(Some(700), Some(0),
        Some(<<Risk("Heat Stress"), Risk("Heat Stress"), Risk("Heat Stress"),
               Risk("Heat Stress"), Risk("Drought Stress")>>),
        Some(TRUE), Some("Flowering"), Some(0))

\* a wet day whose sensors report 0 or nothing, and no status objects
DayFlood ==
    WithSensors(Day(Some(420), Some(30),
                    Some(<<Risk("Cold Stress"), Risk("Pest Alert"), Risk("Waterlogging")>>),
                    Some(FALSE), Some("Maturity"), Some(100)),
                Some(0), NULL, Some(80), Some(0), NULL, NULL, Some(0), NULL)

DayMild == Day(Some(8), Some(0), Some(<<>>), Some(TRUE), Some("Tillering"), Some(70))

\* a day too cold for any growth
DayChill == Day(Some(0), Some(0), Some(<<>>), Some(FALSE), Some("Tillering"), Some(70))

DayKinds == {DayDry, DayHeat, DayBare, DayScorch, DayFlood}

RECURSIVE SeqsUpTo(_, _)
SeqsUpTo(S, n) ==
    IF n = 0 THEN {<<>>}
    ELSE LET shorter == SeqsUpTo(S, n - 1)
         IN shorter \cup {Append(s, d) : s \in shorter, d \in S}

Repeat(d, k) == [i \in 1..k |-> d]

\* the series the forecast provider may deliver: a short one, or a long one
\* (every shorter horizon is a prefix the slider selects)
SeriesSet ==
    {h \o Repeat(DayMild, k) : h \in SeqsUpTo(DayKinds, MaxHead), k \in {0, MaxPad}}
    \cup {<<DayDry, DayHeat, DayMild>>}
    \cup {<<DayDry, DayMild>> \o Repeat(DayChill, MaxChill)}

\* the forecasts a parent re-render may pass in: no daily at all, or a series
ForecastSet ==
    {[daily |-> NULL]} \cup
    {[daily |-> Some(h \o Repeat(DayMild, k))] :
        h \in SeqsUpTo(DayKinds, 1), k \in {0, 1, MaxPad}}

----------------------------------------------------------------------------
(* dynamicSummary, ForecastingHub.tsx lines 36-143 *)

\* a slice end that stops one day short
SliceShort(s, from, to) == SubSeq(s, from + 1, (IF to > Len(s) THEN Len(s) ELSE to) - 1)

\* Array.prototype.slice(from, to) for 0 <= from <= to: the end is clamped
Slice(s, from, to) == SubSeq(s, from + 1, IF to > Len(s) THEN Len(s) ELSE to)

ZeroCounters ==
    [totalGdd |-> 0, totalPrecipitation |-> 0, heatStressDays |-> 0,
     coldStressDays |-> 0, droughtStressDays |-> 0, waterlogDays |-> 0,
     irrigationDaysNeeded |-> 0]

\* a chain of ifs whose last branch takes every other type
CountRiskElse(acc, risk) ==
    [acc EXCEPT
        !.heatStressDays = @ + (IF risk.type = "Heat Stress" THEN 1 ELSE 0),
        !.coldStressDays = @ + (IF risk.type = "Cold Stress" THEN 1 ELSE 0),
        !.droughtStressDays = @ + (IF risk.type = "Drought Stress" THEN 1 ELSE 0),
        !.waterlogDays = @ + (IF risk.type \notin {"Heat Stress", "Cold Stress", "Drought Stress"}
                                THEN 1 ELSE 0)]

\* the body of day.risks.forEach: four independent ifs on risk.type
CountRisk(acc, risk) ==
    [acc EXCEPT
        !.heatStressDays = @ + (IF risk.type = "Heat Stress" THEN 1 ELSE 0),
        !.coldStressDays = @ + (IF risk.type = "Cold Stress" THEN 1 ELSE 0),
        !.droughtStressDays = @ + (IF risk.type = "Drought Stress" THEN 1 ELSE 0),
        !.waterlogDays = @ + (IF risk.type = "Waterlogging" THEN 1 ELSE 0)]

RECURSIVE RisksForEach(_, _)
RisksForEach(risks, acc) ==
    IF risks = <<>> THEN acc
    ELSE RisksForEach(Tail(risks), CountRisk(acc, Head(risks)))

\* an accumulation that assigns the day's gdd instead of adding it
AddDayAssign(acc, day) ==
    LET sums == [acc EXCEPT !.totalGdd = OrZero(day.gdd),
                            !.totalPrecipitation = @ + OrZero(day.precipitation)]
        risked == IF day.risks # NULL THEN RisksForEach(Val(day.risks), sums) ELSE sums
    IN  [risked EXCEPT !.irrigationDaysNeeded =
                            @ + (IF Truthy(day.irrigation_needed) THEN 1 ELSE 0)]

\* the irrigation count moved into the risks loop: once per risk entry
AddDayIrrigationPerRisk(acc, day) ==
    LET sums == [acc EXCEPT !.totalGdd = @ + OrZero(day.gdd),
                            !.totalPrecipitation = @ + OrZero(day.precipitation)]
        risked == IF day.risks # NULL THEN RisksForEach(Val(day.risks), sums) ELSE sums
    IN  [risked EXCEPT !.irrigationDaysNeeded =
                            @ + (IF Truthy(day.irrigation_needed) /\ day.risks # NULL
                                    THEN Len(Val(day.risks)) ELSE 0)]

\* the body of daysToAnalyze.forEach
AddDay(acc, day) ==
    LET sums == [acc EXCEPT !.totalGdd = @ + OrZero(day.gdd),
                            !.totalPrecipitation = @ + OrZero(day.precipitation)]
        risked == IF day.risks # NULL THEN RisksForEach(Val(day.risks), sums) ELSE sums
    IN  [risked EXCEPT !.irrigationDaysNeeded =
                            @ + (IF Truthy(day.irrigation_needed) THEN 1 ELSE 0)]

RECURSIVE DaysForEach(_, _)
DaysForEach(days, acc) ==
    IF days = <<>> THEN acc
    ELSE DaysForEach(Tail(days), AddDay(acc, Head(days)))

\* thresholds that admit their own boundary value
YieldEstimateInclusive(stressRatio) ==
    IF ~RatGT(stressRatio, Rat(1, 10))
        THEN [classification |-> "Excellent", percentage |-> "95%"]
    ELSE IF ~RatGT(stressRatio, Rat(2, 10))
        THEN [classification |-> "Good", percentage |-> "85%"]
    ELSE IF ~RatGT(stressRatio, Rat(35, 100))
        THEN [classification |-> "Moderate", percentage |-> "70%"]
    ELSE [classification |-> "At Risk", percentage |-> "55%"]

\* the last threshold at 0.30
YieldEstimateThirty(stressRatio) ==
    IF RatLT(stressRatio, Rat(1, 10))
        THEN [classification |-> "Excellent", percentage |-> "95%"]
    ELSE IF RatLT(stressRatio, Rat(2, 10))
        THEN [classification |-> "Good", percentage |-> "85%"]
    ELSE IF RatLT(stressRatio, Rat(30, 100))
        THEN [classification |-> "Moderate", percentage |-> "70%"]
    ELSE [classification |-> "At Risk", percentage |-> "55%"]

\* the if / else-if chain on stressRatio
YieldEstimate(stressRatio) ==
    IF RatLT(stressRatio, Rat(1, 10))
        THEN [classification |-> "Excellent", percentage |-> "95%"]
    ELSE IF RatLT(stressRatio, Rat(2, 10))
        THEN [classification |-> "Good", percentage |-> "85%"]
    ELSE IF RatLT(stressRatio, Rat(35, 100))
        THEN [classification |-> "Moderate", percentage |-> "70%"]
    ELSE [classification |-> "At Risk", percentage |-> "55%"]

targetGdd == 1400

\* progress without the cap at 100
GddProgressUncapped(totalGdd) == RatMul(Rat(totalGdd, targetGdd), Rat(100, 1))

\* Math.min(100, (totalGdd / targetGdd) * 100)
GddProgress(totalGdd) ==
    RatMin(Rat(100, 1), RatMul(Rat(totalGdd, targetGdd), Rat(100, 1)))

\* the estimate rounded down
EstimatedDaysRemainingFloor(remainingGdd, avgDailyGdd) ==
    IF RatGT(avgDailyGdd, Rat(0, 1))
        THEN Floor(RatDiv(Rat(remainingGdd, 1), avgDailyGdd))
        ELSE 999

\* avgDailyGdd > 0 ? Math.ceil(remainingGdd / avgDailyGdd) : 999
EstimatedDaysRemaining(remainingGdd, avgDailyGdd) ==
    IF RatGT(avgDailyGdd, Rat(0, 1))
        THEN Ceil(RatDiv(Rat(remainingGdd, 1), avgDailyGdd))
        ELSE 999

\* window bounds that admit their own boundary value
HarvestWindowInclusive(gddProgress) ==
    IF ~RatLT(gddProgress, Rat(80, 1)) THEN "Near"
    ELSE IF ~RatLT(gddProgress, Rat(50, 1)) THEN "Mid-Season"
    ELSE "Early Season"

\* gddProgress > 80 ? 'Near' : gddProgress > 50 ? 'Mid-Season' : 'Early Season'
HarvestWindow(gddProgress) ==
    IF RatGT(gddProgress, Rat(80, 1)) THEN "Near"
    ELSE IF RatGT(gddProgress, Rat(50, 1)) THEN "Mid-Season"
    ELSE "Early Season"

\* the half taken as an integer quotient
RainRiskIntegerHalf(irrigationDaysNeeded, totalDays) ==
    IF irrigationDaysNeeded < totalDays \div 2 THEN "Low" ELSE "Moderate"

\* irrigationDaysNeeded < totalDays / 2 ? 'Low' : 'Moderate'
RainRisk(irrigationDaysNeeded, totalDays) ==
    IF RatLT(Rat(irrigationDaysNeeded, 1), Rat(totalDays, 2)) THEN "Low" ELSE "Moderate"

\* one advisory string: its template and the values interpolated into it
Advice(template, count, days, plural) ==
    [template |-> template, count |-> count, days |-> days, plural |-> plural]

\* the yield warning gated at more than two stress days
RecommendationsOverTwo(c, totalStressDays, totalDays) ==
    (IF c.irrigationDaysNeeded > 0
        THEN <<Advice("Irrigation needed", c.irrigationDaysNeeded, totalDays, FALSE)>>
        ELSE <<Advice("Sufficient rainfall expected", 0, totalDays, FALSE)>>)
    \o (IF c.heatStressDays > 0
        THEN <<Advice("heat stress detected", c.heatStressDays, 0, c.heatStressDays > 1)>>
        ELSE <<>>)
    \o (IF c.droughtStressDays > 0
        THEN <<Advice("drought stress ahead", c.droughtStressDays, 0, c.droughtStressDays > 1)>>
        ELSE <<>>)
    \o (IF totalStressDays > 2 THEN <<Advice("Yield may be impacted", 0, 0, FALSE)>>
        ELSE IF totalStressDays = 0
            THEN <<Advice("Excellent growing conditions", 0, 0, FALSE)>>
        ELSE <<>>)

\* recommendations.push(...) in source order, lines 96-116
Recommendations(c, totalStressDays, totalDays) ==
    (IF c.irrigationDaysNeeded > 0
        THEN <<Advice("Irrigation needed", c.irrigationDaysNeeded, totalDays, FALSE)>>
        ELSE <<Advice("Sufficient rainfall expected", 0, totalDays, FALSE)>>)
    \o (IF c.heatStressDays > 0
        THEN <<Advice("heat stress detected", c.heatStressDays, 0, c.heatStressDays > 1)>>
        ELSE <<>>)
    \o (IF c.droughtStressDays > 0
        THEN <<Advice("drought stress ahead", c.droughtStressDays, 0, c.droughtStressDays > 1)>>
        ELSE <<>>)
    \o (IF totalStressDays > 3 THEN <<Advice("Yield may be impacted", 0, 0, FALSE)>>
        ELSE IF totalStressDays = 0
            THEN <<Advice("Excellent growing conditions", 0, 0, FALSE)>>
        ELSE <<>>)

\* a guard that also turns an empty array away
NoSummaryOrEmpty(fc, idx) == fc.daily = NULL \/ Val(fc.daily) = <<>> \/ idx < 0

\* if (!forecast.daily || dayIndex < 0) return null: an array, empty or not, is truthy
NoSummary(fc, idx) == fc.daily = NULL \/ idx < 0

\* currentDay?.crop_stage || 'Unknown'
CurrentStage(cur) ==
    IF cur = NULL \/ Val(cur).crop_stage = NULL \/ Val(cur).crop_stage = Some("")
        THEN "Unknown" ELSE Val(Val(cur).crop_stage)

\* currentDay?.stage_progress || 0
StageProgress(cur) == IF cur = NULL THEN 0 ELSE OrZero(Val(cur).stage_progress)

\* the daily average taken over one day more than was analysed
SummaryFromAvgOffByOne(c, totalDays, cur) ==
    LET totalStressDays ==
            c.heatStressDays + c.coldStressDays + c.droughtStressDays + c.waterlogDays
        stressRatio == Rat(totalStressDays, Max(totalDays, 1))
        gddProgress == GddProgress(c.totalGdd)
        remainingGdd == targetGdd - c.totalGdd
        avgDailyGdd == Rat(c.totalGdd, totalDays + 1)
    IN  [total_gdd |-> c.totalGdd,
         avg_daily_gdd |-> avgDailyGdd,
         total_precipitation |-> c.totalPrecipitation,
         heat_stress_days |-> c.heatStressDays,
         cold_stress_days |-> c.coldStressDays,
         drought_stress_days |-> c.droughtStressDays,
         waterlog_days |-> c.waterlogDays,
         irrigation_days_needed |-> c.irrigationDaysNeeded,
         total_risk_days |-> totalStressDays,
         analysis_period |-> totalDays,
         current_stage |-> CurrentStage(cur),
         stage_progress |-> StageProgress(cur),
         yield_estimate |-> YieldEstimate(stressRatio),
         harvest |->
            [days_remaining |-> EstimatedDaysRemaining(remainingGdd, avgDailyGdd),
             readiness_percent |-> gddProgress,
             harvest_window |-> HarvestWindow(gddProgress),
             rain_risk |-> RainRisk(c.irrigationDaysNeeded, totalDays)],
         recommendations |-> Recommendations(c, totalStressDays, totalDays)]

\* lines 68-142: everything after the forEach, from the counters it left
SummaryFrom(c, totalDays, cur) ==
    LET totalStressDays ==
            c.heatStressDays + c.coldStressDays + c.droughtStressDays + c.waterlogDays
        stressRatio == Rat(totalStressDays, Max(totalDays, 1))
        gddProgress == GddProgress(c.totalGdd)
        remainingGdd == targetGdd - c.totalGdd
        avgDailyGdd == Rat(c.totalGdd, Max(totalDays, 1))
    IN  [total_gdd |-> c.totalGdd,
         avg_daily_gdd |-> avgDailyGdd,
         total_precipitation |-> c.totalPrecipitation,
         heat_stress_days |-> c.heatStressDays,
         cold_stress_days |-> c.coldStressDays,
         drought_stress_days |-> c.droughtStressDays,
         waterlog_days |-> c.waterlogDays,
         irrigation_days_needed |-> c.irrigationDaysNeeded,
         total_risk_days |-> totalStressDays,
         analysis_period |-> totalDays,
         current_stage |-> CurrentStage(cur),
         stage_progress |-> StageProgress(cur),
         yield_estimate |-> YieldEstimate(stressRatio),
         harvest |->
            [days_remaining |-> EstimatedDaysRemaining(remainingGdd, avgDailyGdd),
             readiness_percent |-> gddProgress,
             harvest_window |-> HarvestWindow(gddProgress),
             rain_risk |-> RainRisk(c.irrigationDaysNeeded, totalDays)],
         recommendations |-> Recommendations(c, totalStressDays, totalDays)]

\* the day count taken from the index asked for, not from the slice
DynamicSummaryRequested(fc, idx, cur) ==
    IF NoSummary(fc, idx) THEN NULL
    ELSE
    LET daysToAnalyze == Slice(Val(fc.daily), 0, idx + 1)
        totalDays == idx + 1
    IN  Some(SummaryFrom(DaysForEach(daysToAnalyze, ZeroCounters), totalDays, cur))

\* the function passed to useMemo: null, or the summary object
DynamicSummary(fc, idx, cur) ==
    IF NoSummary(fc, idx) THEN NULL
    ELSE
    LET daysToAnalyze == Slice(Val(fc.daily), 0, idx + 1)
        totalDays == Len(daysToAnalyze)
    IN  Some(SummaryFrom(DaysForEach(daysToAnalyze, ZeroCounters), totalDays, cur))

----------------------------------------------------------------------------
(* The component: one render of ForecastingHub, and its event handlers *)

Tabs == {"simulation", "summary", "recommendations"}

\* the first day, whatever the index
CurrentDayFirst(fc, idx) ==
    IF fc.daily = NULL THEN NULL
    ELSE IF idx >= 0 /\ idx < Len(Val(fc.daily)) THEN Some(Val(fc.daily)[1])
    ELSE NULL

\* forecast.daily?.[dayIndex]
CurrentDay(fc, idx) ==
    IF fc.daily = NULL THEN NULL
    ELSE IF idx >= 0 /\ idx < Len(Val(fc.daily)) THEN Some(Val(fc.daily)[idx + 1])
    ELSE NULL

\* the dependency array [forecast.daily, dayIndex, currentDay]
Deps(fc, idx) == <<fc.daily, idx, CurrentDay(fc, idx)>>

\* a memo keyed on dayIndex alone
UseMemoByIndex(oldDeps, oldValue, fc, idx) ==
    IF oldDeps # NULL /\ Val(oldDeps)[2] = idx THEN oldValue
    ELSE DynamicSummary(fc, idx, CurrentDay(fc, idx))

\* useMemo: the stored value is kept while the dependencies are unchanged
UseMemo(oldDeps, oldValue, fc, idx) ==
    IF oldDeps = Some(Deps(fc, idx)) THEN oldValue
    ELSE DynamicSummary(fc, idx, CurrentDay(fc, idx))

\* x ?? d on an optional value: only undefined / null is replaced
Nullish(o, d) == IF o = NULL THEN d ELSE Val(o)

\* `${x.toFixed(digits)}unit`: the number, the digits kept and the unit
Fixed(x, digits, unit) == [number |-> x, digits |-> digits, unit |-> unit]

\* obj?.status || 'N/A'
StatusOrNA(o) ==
    IF o = NULL \/ Val(o).status = "" THEN "N/A" ELSE Val(o).status

MetricPill(label, value, status) == [label |-> label, value |-> value, status |-> status]

\* the Detailed Metrics Row, lines 308-315
MetricPills(day) ==
    <<MetricPill("VPD", Fixed(Nullish(day.vpd, 0), 2, "kPa"), StatusOrNA(day.vpd_status)),
      MetricPill("Humidity", Fixed(Nullish(day.humidity, 0), 0, "%"),
                 IF Nullish(day.humidity, 0) > 80 THEN "High" ELSE "Normal"),
      MetricPill("Wind", Fixed(Nullish(day.wind_speed, 0), 1, "m/s"),
                 IF Nullish(day.wind_speed, 0) > 10 THEN "Strong" ELSE "Calm"),
      MetricPill("Soil Moisture", Fixed(Nullish(day.soil_moisture, 0), 0, "%"),
                 StatusOrNA(day.soil_status)),
      MetricPill("Soil Temp", Fixed(Nullish(day.soil_temperature, 0), 1, "C"), "Root Zone"),
      MetricPill("Radiation", Fixed(Nullish(day.radiation, 0), 0, "W/m2"),
                 IF Nullish(day.radiation, 0) > 600 THEN "High" ELSE "Normal")>>

\* the metrics row is part of the simulation tab only (line 209)
Metrics(cur, tab) ==
    IF tab = "simulation" /\ cur # NULL THEN MetricPills(Val(cur)) ELSE <<>>

\* a render guard that looks at the summary only
ViewWithoutDayCheck(fc, idx, tab, summary) ==
    IF summary = NULL THEN NULL
    ELSE Some([header_days |-> idx + 1,
               slider_max |-> Len(Val(fc.daily)) - 1,
               tab |-> tab,
               metrics |-> Metrics(CurrentDay(fc, idx), tab)])

\* what the component returns: null (line 145), or the view
View(fc, idx, tab, summary) ==
    IF CurrentDay(fc, idx) = NULL \/ summary = NULL THEN NULL
    ELSE Some([header_days |-> idx + 1,
               slider_max |-> Len(Val(fc.daily)) - 1,
               tab |-> tab,
               metrics |-> Metrics(CurrentDay(fc, idx), tab)])

\* a call that removes the days it returns from the array it is applied to
ArrayAfterSplice(s, from, to) == SubSeq(s, (IF to > Len(s) THEN Len(s) ELSE to) + 1, Len(s))

\* the array slice(from, to) was applied to: slice copies, the forEach callbacks
\* only read day.gdd, day.precipitation, day.risks and day.irrigation_needed
ArrayAfterSlice(s, from, to) == s

\* the forecast prop when the render has finished: the memoized function ran
\* unless the dependencies were unchanged, and sliced unless it returned null
ForecastAfter(oldDeps, fc, idx) ==
    IF oldDeps = Some(Deps(fc, idx)) \/ NoSummary(fc, idx) THEN fc
    ELSE [daily |-> Some(ArrayAfterSlice(Val(fc.daily), 0, idx + 1))]

\* the summarize calls in flight: none while the component alone is studied
Calls == {1, 2}

IdleCall == [state |-> "idle", idx |-> 0, i |-> 0, result |-> NULL, overlapped |-> FALSE]

\* a render with the given props and state, after the previous one
Render(fc, idx, tab) ==
    /\ forecast' = ForecastAfter(memoDeps, fc, idx)
    /\ dayIndex' = idx
    /\ activeTab' = tab
    /\ memoDeps' = Some(Deps(fc, idx))
    /\ dynamicSummary' = UseMemo(memoDeps, dynamicSummary, fc, idx)
    /\ rendered' = View(fc, idx, tab, dynamicSummary')
    /\ UNCHANGED <<calls, accs>>

\* the first render: useState(0), useState('simulation'), nothing memoized yet
Init ==
    /\ forecast \in {[daily |-> NULL]} \cup {[daily |-> Some(s)] : s \in SeriesSet}
    /\ dayIndex = 0
    /\ activeTab = "simulation"
    /\ memoDeps = Some(Deps(forecast, dayIndex))
    /\ dynamicSummary = DynamicSummary(forecast, dayIndex, CurrentDay(forecast, dayIndex))
    /\ rendered = View(forecast, dayIndex, activeTab, dynamicSummary)
    /\ calls = [p \in Calls |-> IdleCall]
    /\ accs = [p \in Calls |-> ZeroCounters]

\* the range input's onChange: setDayIndex(parseInt(e.target.value))
SetDayIndex ==
    /\ rendered # NULL
    /\ \E v \in 0..Val(rendered).slider_max :
        /\ v # dayIndex
        /\ Render(forecast, v, activeTab)

\* a tab button's onClick: setActiveTab(tab)
SetActiveTab ==
    /\ rendered # NULL
    /\ \E tab \in Tabs :
        /\ tab # activeTab
        /\ Render(forecast, dayIndex, tab)

\* the parent renders the component again with another forecast prop
ReceiveForecast ==
    \E fc \in ForecastSet :
        /\ fc # forecast
        /\ Render(fc, dayIndex, activeTab)

Next == SetDayIndex \/ SetActiveTab \/ ReceiveForecast

Spec == Init /\ [][Next]_vars

----------------------------------------------------------------------------
(* Several evaluations of the memoized function over one series, each split  *)
(* into its steps: the guard and slice, one forEach callback per day, and    *)
(* the composition of the result.                                            *)

\* bound: the trailing days of the series the interleaved calls run over
MaxConcPad == 2

ConcSeries == {h \o Repeat(DayMild, k) : h \in SeqsUpTo(DayKinds, 1), k \in 0..MaxConcPad}

\* one set of accumulators for every call
AccOwnerShared(p) == 1

\* let totalGdd = 0 ... let irrigationDaysNeeded = 0 are locals of the function
\* passed to useMemo: every call has its own
AccOwner(p) == p

DaysToAnalyze(p) == Slice(Val(forecast.daily), 0, calls[p].idx + 1)

ComponentIdle == UNCHANGED <<forecast, dayIndex, activeTab, memoDeps, dynamicSummary, rendered>>

\* lines 37-49: the guard, the slice, the accumulators set to 0
StartCall(p) ==
    /\ calls[p].state = "idle"
    /\ \E idx \in -1..(IF forecast.daily = NULL THEN 0 ELSE Len(Val(forecast.daily))) :
        IF NoSummary(forecast, idx)
        THEN /\ calls' = [calls EXCEPT ![p] = [@ EXCEPT !.state = "done", !.idx = idx]]
             /\ UNCHANGED accs
        ELSE /\ calls' = [calls EXCEPT ![p] = [@ EXCEPT !.state = "running", !.idx = idx]]
             /\ accs' = [accs EXCEPT ![AccOwner(p)] = ZeroCounters]
    /\ ComponentIdle

\* lines 51-66: the forEach callback on the next day of the slice
StepCall(p) ==
    /\ calls[p].state = "running"
    /\ calls[p].i < Len(DaysToAnalyze(p))
    /\ accs' = [accs EXCEPT ![AccOwner(p)] = AddDay(@, DaysToAnalyze(p)[calls[p].i + 1])]
    /\ calls' = [calls EXCEPT ![p] =
            [@ EXCEPT !.i = @ + 1,
                      !.overlapped = @ \/ \E q \in Calls \ {p} : calls[q].state = "running"]]
    /\ ComponentIdle

\* lines 68-142: the summary object composed from the accumulators
FinishCall(p) ==
    /\ calls[p].state = "running"
    /\ calls[p].i = Len(DaysToAnalyze(p))
    /\ calls' = [calls EXCEPT ![p] =
            [@ EXCEPT !.state = "done",
                      !.result = Some(SummaryFrom(accs[AccOwner(p)], Len(DaysToAnalyze(p)),
                                                  CurrentDay(forecast, calls[p].idx)))]]
    /\ UNCHANGED accs
    /\ ComponentIdle

InitConc ==
    /\ forecast \in {[daily |-> NULL]} \cup {[daily |-> Some(s)] : s \in ConcSeries}
    /\ dayIndex = 0
    /\ activeTab = "simulation"
    /\ memoDeps = Some(Deps(forecast, dayIndex))
    /\ dynamicSummary = DynamicSummary(forecast, dayIndex, CurrentDay(forecast, dayIndex))
    /\ rendered = View(forecast, dayIndex, activeTab, dynamicSummary)
    /\ calls = [p \in Calls |-> IdleCall]
    /\ accs = [p \in Calls |-> ZeroCounters]

NextConc == \E p \in Calls : StartCall(p) \/ StepCall(p) \/ FinishCall(p)

SpecConc == InitConc /\ [][NextConc]_vars

----------------------------------------------------------------------------
(* Properties *)

\* the series is present and dayIndex selects one of its days
ValidPrefix ==
    /\ forecast.daily # NULL
    /\ dayIndex >= 0
    /\ dayIndex < Len(Val(forecast.daily))

series == Val(forecast.daily)

summary == Val(dynamicSummary)

\* the prefix length n = dayIndex + 1
prefixLen == dayIndex + 1

GddOf(day) == IF day.gdd = NULL THEN 0 ELSE Val(day.gdd)

PrecipitationOf(day) == IF day.precipitation = NULL THEN 0 ELSE Val(day.precipitation)

RECURSIVE PrefixGdd(_, _)
PrefixGdd(s, k) == IF k = 0 THEN 0 ELSE PrefixGdd(s, k - 1) + GddOf(s[k])

RECURSIVE PrefixPrecipitation(_, _)
PrefixPrecipitation(s, k) ==
    IF k = 0 THEN 0 ELSE PrefixPrecipitation(s, k - 1) + PrecipitationOf(s[k])

GddNonNegative(s) == \A i \in 1..Len(s) : GddOf(s[i]) >= 0

\* C1: for a valid prefix length n the summary's totalGdd is the sum of gdd over
\* days 0..n-1 and totalPrecipitation the sum of precipitation over the same
\* days, a missing value counting as 0.
C1_TotalsArePrefixSums ==
    ValidPrefix =>
        /\ dynamicSummary # NULL
        /\ summary.total_gdd = PrefixGdd(series, prefixLen)
        /\ summary.total_precipitation = PrefixPrecipitation(series, prefixLen)

\* C1 witness: a summary over at least three days, one of them without gdd and
\* precipitation, with both totals positive.
C1_Witness ==
    /\ ValidPrefix
    /\ prefixLen >= 3
    /\ \E i \in 1..prefixLen : series[i].gdd = NULL /\ series[i].precipitation = NULL
    /\ summary.total_gdd > 0
    /\ summary.total_precipitation > 0

\* C2: for a fixed series with every gdd >= 0, moving the prefix length from n
\* to n + 1 never lowers totalGdd.
C2_TotalGddMonotone ==
    [][(/\ ValidPrefix
        /\ forecast' = forecast
        /\ dayIndex' = dayIndex + 1
        /\ dayIndex' < Len(series)
        /\ GddNonNegative(series))
       => /\ dynamicSummary' # NULL
          /\ Val(dynamicSummary').total_gdd >= summary.total_gdd]_vars

\* C2 witness: a summary over n >= 2 days whose last day added gdd to the total
\* of the first n - 1 days.
C2_Witness ==
    /\ ValidPrefix
    /\ prefixLen >= 2
    /\ GddNonNegative(series)
    /\ GddOf(series[prefixLen]) > 0
    /\ summary.total_gdd = PrefixGdd(series, prefixLen - 1) + GddOf(series[prefixLen])

\* C3: for every series, repeated risk types within a day allowed, and every
\* valid prefix length n, totalRiskDays is at most 4 * n.
C3_RiskDaysAtMostFourPerDay ==
    ValidPrefix => summary.total_risk_days <= 4 * prefixLen

\* the divisor max(n, 1) of the summary's ratios, n the number of days analysed
divisor == Max(summary.analysis_period, 1)

\* C4: the yield bucket is decided by stressRatio = totalRiskDays / max(n,1)
\* against strict upper bounds: below 0.10 Excellent/95%, else below 0.20
\* Good/85%, else below 0.35 Moderate/70%, otherwise At Risk/55%; a ratio equal
\* to a bound falls into the worse bucket, and exactly one bucket is given.
C4_YieldBuckets ==
    dynamicSummary # NULL =>
        LET t == summary.total_risk_days
            y == summary.yield_estimate
        IN  /\ ValidPrefix => summary.analysis_period = prefixLen
            /\ (10 * t < divisor) <=> (y.classification = "Excellent")
            /\ (10 * t >= divisor /\ 5 * t < divisor) <=> (y.classification = "Good")
            /\ (5 * t >= divisor /\ 20 * t < 7 * divisor) <=> (y.classification = "Moderate")
            /\ (20 * t >= 7 * divisor) <=> (y.classification = "At Risk")
            /\ y \in {[classification |-> "Excellent", percentage |-> "95%"],
                      [classification |-> "Good", percentage |-> "85%"],
                      [classification |-> "Moderate", percentage |-> "70%"],
                      [classification |-> "At Risk", percentage |-> "55%"]}

\* C4 witness: a ratio of exactly 0.35 (7 stress entries over 20 days), classified
\* At Risk.
C4_Witness ==
    /\ ValidPrefix
    /\ summary.total_risk_days > 0
    /\ 20 * summary.total_risk_days = 7 * prefixLen
    /\ summary.yield_estimate.classification = "At Risk"

C6_ReadinessPercent ==
    dynamicSummary # NULL =>
        LET total == summary.total_gdd
            r == summary.harvest.readiness_percent
        IN  /\ r.den > 0
            /\ total < targetGdd => r.num * targetGdd = 100 * total * r.den
            /\ total >= targetGdd => r.num = 100 * r.den
            /\ (ValidPrefix /\ GddNonNegative(series)) =>
                    (0 <= r.num /\ r.num <= 100 * r.den)

\* C6 witness: totalGdd beyond the target, readiness held at 100.
C6_Witness ==
    /\ ValidPrefix
    /\ summary.total_gdd > targetGdd
    /\ summary.harvest.readiness_percent.num = 100 * summary.harvest.readiness_percent.den

\* C7: harvestWindow is Near exactly when readinessPercent > 80, Mid-Season
\* exactly when 50 < readinessPercent <= 80, Early Season exactly when
\* readinessPercent <= 50.
C7_HarvestWindow ==
    dynamicSummary # NULL =>
        LET r == summary.harvest.readiness_percent
            w == summary.harvest.harvest_window
        IN  /\ (w = "Near") <=> (r.num > 80 * r.den)
            /\ (w = "Mid-Season") <=> (r.num > 50 * r.den /\ r.num <= 80 * r.den)
            /\ (w = "Early Season") <=> (r.num <= 50 * r.den)

\* C7 witness: readiness of exactly 80 percent, shown as Mid-Season.
C7_Witness ==
    /\ ValidPrefix
    /\ summary.total_gdd * 100 = 80 * targetGdd
    /\ summary.harvest.harvest_window = "Mid-Season"

\* C8: rainRisk is Low exactly when 2 * irrigationDaysNeeded < n and Moderate
\* otherwise, the tie 2 * irrigationDaysNeeded = n included.
C8_RainRisk ==
    dynamicSummary # NULL =>
        LET irr == summary.irrigation_days_needed
            risk == summary.harvest.rain_risk
        IN  /\ ValidPrefix => summary.analysis_period = prefixLen
            /\ (risk = "Low") <=> (2 * irr < summary.analysis_period)
            /\ (risk = "Moderate") <=> (2 * irr >= summary.analysis_period)

\* C8 witness: irrigation needed on exactly half of the analysed days, rated
\* Moderate.
C8_Witness ==
    /\ ValidPrefix
    /\ summary.irrigation_days_needed > 0
    /\ 2 * summary.irrigation_days_needed = prefixLen
    /\ summary.harvest.rain_risk = "Moderate"

Templates(recs) == [i \in 1..Len(recs) |-> recs[i].template]

\* the rule of section 4.4 that emits each advisory
RuleOf(template) ==
    CASE template = "Irrigation needed" -> 1
      [] template = "Sufficient rainfall expected" -> 1
      [] template = "heat stress detected" -> 2
      [] template = "drought stress ahead" -> 3
      [] template = "Yield may be impacted" -> 4
      [] template = "Excellent growing conditions" -> 5

Emits(recs, template) == \E i \in 1..Len(recs) : recs[i].template = template

\* C9: the recommendations are built by five rules in fixed order: first always
\* one entry, the irrigation advisory if irrigationDaysNeeded > 0 and the
\* sufficient-rainfall advisory otherwise; a heat advisory iff heatStressDays > 0;
\* a drought advisory iff droughtStressDays > 0; the yield-impact warning iff
\* totalRiskDays > 3; the excellent-conditions message iff totalRiskDays = 0; the
\* entries that fire appear in this order.
C9_RecommendationRules ==
    dynamicSummary # NULL =>
        LET recs == summary.recommendations
        IN  /\ Len(recs) >= 1
            /\ recs[1].template = (IF summary.irrigation_days_needed > 0
                                    THEN "Irrigation needed"
                                    ELSE "Sufficient rainfall expected")
            /\ Emits(recs, "heat stress detected") <=> (summary.heat_stress_days > 0)
            /\ Emits(recs, "drought stress ahead") <=> (summary.drought_stress_days > 0)
            /\ Emits(recs, "Yield may be impacted") <=> (summary.total_risk_days > 3)
            /\ Emits(recs, "Excellent growing conditions") <=> (summary.total_risk_days = 0)
            /\ \A i \in 1..Len(recs) : \A j \in 1..Len(recs) :
                    i < j => RuleOf(recs[i].template) < RuleOf(recs[j].template)

\* C9 witness: irrigation, heat, drought and yield-impact advisories all emitted,
\* in that order.
C9_Witness ==
    /\ ValidPrefix
    /\ Templates(summary.recommendations) =
        <<"Irrigation needed", "heat stress detected", "drought stress ahead",
          "Yield may be impacted">>

\* C10 as stated: the summary is null whenever the series is missing, is a
\* present sequence of length 0, or dayIndex < 0.
C10_NullForEmptySeries ==
    (forecast.daily = NULL \/ forecast.daily = Some(<<>>) \/ dayIndex < 0)
        => dynamicSummary = NULL

\* C10 amended: the summary is null exactly when the series is missing or
\* dayIndex < 0; for a present series of length 0 a summary over 0 days is
\* computed, all counters 0, and the component renders nothing.
C10_NullOnlyWhenMissing ==
    /\ (dynamicSummary = NULL) <=> (forecast.daily = NULL \/ dayIndex < 0)
    /\ \A idx \in {-2, -1} : DynamicSummary(forecast, idx, NULL) = NULL
    /\ forecast.daily = Some(<<>>) =>
        /\ dynamicSummary # NULL
        /\ summary.analysis_period = 0
        /\ summary.total_gdd = 0
        /\ summary.total_risk_days = 0
        /\ summary.irrigation_days_needed = 0
        /\ rendered = NULL

\* C10 witness: an empty series, a summary over 0 days memoized, nothing rendered.
C10_Witness ==
    /\ forecast.daily = Some(<<>>)
    /\ dynamicSummary # NULL
    /\ summary.analysis_period = 0
    /\ rendered = NULL

\* the series is present and dayIndex lies beyond its last day
OutOfRange ==
    /\ forecast.daily # NULL
    /\ dayIndex >= Len(Val(forecast.daily))

\* C11 as stated, for a non-empty series: when the prefix length exceeds the
\* length of the series the query returns an absent result, not a summary
\* computed over some other prefix.
C11_AbsentWhenOutOfRange ==
    (OutOfRange /\ Len(series) >= 1) => dynamicSummary = NULL

\* C11 amended: when the prefix length exceeds the length of the series no error
\* is raised; the summary is computed over the whole series, with stage
\* "Unknown" and progress 0, and it is the component that renders nothing.
C11_ClampedWhenOutOfRange ==
    OutOfRange =>
        /\ dynamicSummary # NULL
        /\ summary.analysis_period = Len(series)
        /\ summary.total_gdd = PrefixGdd(series, Len(series))
        /\ summary.total_precipitation = PrefixPrecipitation(series, Len(series))
        /\ summary.current_stage = "Unknown"
        /\ summary.stage_progress = 0
        /\ rendered = NULL

\* C11 witness: a series of at least one day replaced a longer one, dayIndex
\* stayed beyond its end, the summary covers the whole series and nothing is
\* rendered.
C11_Witness ==
    /\ OutOfRange
    /\ Len(series) >= 1
    /\ dayIndex >= 2
    /\ summary.analysis_period = Len(series)
    /\ summary.total_gdd > 0
    /\ rendered = NULL

Recognized == {"Heat Stress", "Cold Stress", "Drought Stress", "Waterlogging"}

RisksOf(day) == IF day.risks = NULL THEN <<>> ELSE Val(day.risks)

\* the number of risk entries of the first k days whose type is in T
RECURSIVE CountEntries(_, _, _)
CountEntries(s, k, T) ==
    IF k = 0 THEN 0
    ELSE CountEntries(s, k - 1, T)
         + Cardinality({j \in 1..Len(RisksOf(s[k])) : RisksOf(s[k])[j].type \in T})

\* the series with one more risk entry, of type t, on day i
WithExtraRisk(s, i, t) == [s EXCEPT ![i].risks = Some(Append(RisksOf(s[i]), Risk(t)))]

\* C12: each stress counter is the number of risk entries whose type is exactly
\* its recognized name; an entry of any other type changes no counter, so adding
\* an unrecognized entry to any analysed day leaves the whole summary unchanged.
C12_OnlyRecognizedTypesCount ==
    dynamicSummary # NULL =>
        LET k == summary.analysis_period
        IN  /\ summary.heat_stress_days = CountEntries(series, k, {"Heat Stress"})
            /\ summary.cold_stress_days = CountEntries(series, k, {"Cold Stress"})
            /\ summary.drought_stress_days = CountEntries(series, k, {"Drought Stress"})
            /\ summary.waterlog_days = CountEntries(series, k, {"Waterlogging"})
            /\ summary.total_risk_days = CountEntries(series, k, Recognized)
            /\ \A i \in 1..k :
                LET more == [daily |-> Some(WithExtraRisk(series, i, "Hail"))]
                IN  DynamicSummary(more, dayIndex, CurrentDay(more, dayIndex)) = dynamicSummary

\* C12 witness: the analysed days hold an entry of an unrecognized type next to
\* recognized ones, and only the recognized ones are counted.
C12_Witness ==
    /\ ValidPrefix
    /\ \E i \in 1..prefixLen : \E j \in 1..Len(RisksOf(series[i])) :
            RisksOf(series[i])[j].type \notin Recognized
    /\ summary.total_risk_days >= 2
    /\ summary.total_risk_days < CountEntries(series, prefixLen, {"Heat Stress", "Cold Stress",
            "Drought Stress", "Waterlogging", "Pest Alert"})

IrrigationDays(s, k) == Cardinality({i \in 1..k : Truthy(s[i].irrigation_needed)})

\* the series with every day's risk list emptied
WithoutRisks(s) == [i \in 1..Len(s) |-> [s[i] EXCEPT !.risks = Some(<<>>)]]

\* C13: irrigationDaysNeeded is the number of days of the prefix whose
\* irrigationNeeded flag is true: at most one per day, between 0 and n, and the
\* same whatever the days' risk lists are.
C13_IrrigationDaysCountFlags ==
    ValidPrefix =>
        LET irr == summary.irrigation_days_needed
            bare == [daily |-> Some(WithoutRisks(series))]
        IN  /\ irr = IrrigationDays(series, prefixLen)
            /\ 0 <= irr
            /\ irr <= prefixLen
            /\ Val(DynamicSummary(bare, dayIndex, CurrentDay(bare, dayIndex)))
                    .irrigation_days_needed = irr

\* C13 witness: a prefix with a day that needs irrigation and lists several
\* risks, and a day that needs none; the count lies strictly between 0 and n.
C13_Witness ==
    /\ ValidPrefix
    /\ \E i \in 1..prefixLen :
            Truthy(series[i].irrigation_needed) /\ Len(RisksOf(series[i])) >= 2
    /\ \E i \in 1..prefixLen : ~Truthy(series[i].irrigation_needed)
    /\ summary.irrigation_days_needed > 0
    /\ summary.irrigation_days_needed < prefixLen

FourCounters ==
    summary.heat_stress_days + summary.cold_stress_days
        + summary.drought_stress_days + summary.waterlog_days

\* C14 as stated: in every summary produced totalRiskDays is the sum of the four
\* stress counters and the analysed-days figure equals the requested prefix
\* length n.
C14_AnalysedDaysIsRequested ==
    dynamicSummary # NULL =>
        /\ summary.total_risk_days = FourCounters
        /\ summary.analysis_period = prefixLen

\* C14 amended: in every summary produced totalRiskDays is the sum of the four
\* stress counters and the analysed-days figure is the smaller of n and the
\* length of the series; it equals n for every valid n.
C14_AnalysedDaysIsClamped ==
    dynamicSummary # NULL =>
        /\ summary.total_risk_days = FourCounters
        /\ summary.analysis_period =
                (IF prefixLen <= Len(series) THEN prefixLen ELSE Len(series))
        /\ ValidPrefix => summary.analysis_period = prefixLen

\* C14 witness: a summary over fewer days than asked for, with stress entries
\* counted.
C14_Witness ==
    /\ OutOfRange
    /\ summary.total_risk_days > 0
    /\ summary.total_risk_days = FourCounters
    /\ summary.analysis_period = Len(series)
    /\ summary.analysis_period < prefixLen

\* C15: for every valid n, currentStage and stageProgress are those of the last
\* day of the prefix, series[n-1] ('Unknown' and 0 standing in for a stage or a
\* progress that day does not carry).
C15_StageFromLastDay ==
    ValidPrefix =>
        LET last == series[prefixLen]
        IN  /\ summary.current_stage =
                    (IF last.crop_stage = NULL \/ last.crop_stage = Some("")
                        THEN "Unknown" ELSE Val(last.crop_stage))
            /\ summary.stage_progress =
                    (IF last.stage_progress = NULL THEN 0 ELSE Val(last.stage_progress))

\* C15 witness: a prefix of several days whose last day is in another stage, at
\* another progress, than its first day.
C15_Witness ==
    /\ ValidPrefix
    /\ prefixLen >= 2
    /\ series[prefixLen].crop_stage # NULL
    /\ series[1].crop_stage # series[prefixLen].crop_stage
    /\ series[1].stage_progress # series[prefixLen].stage_progress
    /\ Some(summary.current_stage) = series[prefixLen].crop_stage
    /\ Some(summary.stage_progress) = series[prefixLen].stage_progress

\* the forecasts the parent hands to the component, as the provider made them
DeliveredForecasts ==
    {[daily |-> NULL]} \cup {[daily |-> Some(s)] : s \in SeriesSet} \cup ForecastSet

\* C17: computing a summary never changes its input: a step that moves the
\* slider or changes the tab leaves the series as it was, and after a step that
\* receives a forecast, whatever dayIndex then is, the series is the one handed
\* in, with its length, its days and their risk lists.
C17_InputNeverMutated ==
    [][/\ forecast' \in DeliveredForecasts
       /\ (dayIndex' # dayIndex \/ activeTab' # activeTab) => forecast' = forecast]_vars

\* C17 witness: the slider was moved and a summary computed over a proper prefix
\* of a long series, which is still whole.
C17_Witness ==
    /\ ValidPrefix
    /\ dayIndex >= 1
    /\ summary.analysis_period = prefixLen
    /\ prefixLen < Len(series)
    /\ Len(series) > MaxPad
    /\ forecast \in DeliveredForecasts

\* C18: summarize computations over one series, with equal or different n,
\* whose per-day steps are interleaved in any order, each return what the
\* computation returns when run alone.
C18_InterleavedCallsAgree ==
    \A p \in Calls :
        calls[p].state = "done" =>
            calls[p].result =
                DynamicSummary(forecast, calls[p].idx, CurrentDay(forecast, calls[p].idx))

\* C18 witness: two calls with different n, each of which took a step while the
\* other was running, both finished with a summary over at least two days.
C18_Witness ==
    /\ \A p \in Calls :
        /\ calls[p].state = "done"
        /\ calls[p].overlapped
        /\ calls[p].result # NULL
        /\ Val(calls[p].result).analysis_period >= 2
        /\ Val(calls[p].result).total_gdd > 0
    /\ calls[1].idx # calls[2].idx

\* the end-to-end scenario of section 8, with n = 3
Scenario ==
    /\ forecast.daily # NULL
    /\ Len(series) = 3
    /\ dayIndex = 2
    /\ [i \in 1..3 |-> series[i].gdd] = <<Some(10), Some(12), Some(8)>>
    /\ [i \in 1..3 |-> series[i].precipitation] = <<Some(0), Some(5), Some(0)>>
    /\ [i \in 1..3 |-> series[i].risks] = <<Some(<<>>), Some(<<Risk("Heat Stress")>>), Some(<<>>)>>
    /\ [i \in 1..3 |-> series[i].irrigation_needed] = <<Some(TRUE), Some(FALSE), Some(TRUE)>>

\* C19: in the scenario the summary has totalGdd 30, avgDailyGdd 10,
\* totalPrecipitation 5, heatStressDays 1, irrigationDaysNeeded 2, totalRiskDays
\* 1, daysRemaining 137, harvestWindow "Early Season", and its recommendations
\* are the irrigation message followed by the heat-stress message.
C19_ScenarioSummary ==
    Scenario =>
        /\ dynamicSummary # NULL
        /\ summary.total_gdd = 30
        /\ summary.avg_daily_gdd.num = 10 * summary.avg_daily_gdd.den
        /\ summary.total_precipitation = 5
        /\ summary.heat_stress_days = 1
        /\ summary.irrigation_days_needed = 2
        /\ summary.total_risk_days = 1
        /\ summary.harvest.days_remaining = 137
        /\ summary.harvest.harvest_window = "Early Season"
        /\ summary.recommendations =
            <<[template |-> "Irrigation needed", count |-> 2, days |-> 3, plural |-> FALSE],
              [template |-> "heat stress detected", count |-> 1, days |-> 0, plural |-> FALSE]>>

\* C19 witness: the scenario, summarized and rendered.
C19_Witness ==
    /\ Scenario
    /\ rendered # NULL
    /\ summary.analysis_period = 3
    /\ summary.harvest.days_remaining = 137

\* C20 as stated: in the scenario (stressRatio 1/3) the yield estimate is At Risk
\* with 55%.
C20_ScenarioAtRisk ==
    Scenario => summary.yield_estimate = [classification |-> "At Risk", percentage |-> "55%"]

\* C20 amended: in the scenario (stressRatio 1/3, below 0.35) the yield estimate
\* is Moderate with 70%.
C20_ScenarioModerate ==
    Scenario => summary.yield_estimate = [classification |-> "Moderate", percentage |-> "70%"]

\* C20 witness: the scenario with one stress entry over three analysed days.
C20_Witness ==
    /\ Scenario
    /\ 3 * summary.total_risk_days = summary.analysis_period
    /\ summary.yield_estimate.classification = "Moderate"

\* the optional sensor field shown by each pill of the metrics row
SensorField ==
    <<"vpd", "humidity", "wind_speed", "soil_moisture", "soil_temperature", "radiation">>

shownDay == Val(CurrentDay(forecast, dayIndex))

metricsShown == rendered # NULL /\ Val(rendered).tab = "simulation"

\* C21: for each optional sensor field of the displayed day (vpd, humidity,
\* wind speed, soil moisture, soil temperature, radiation), when the field is
\* absent the displayed value is computed from 0 and the displayed status is
\* "N/A", never a status derived from the substituted 0.
C21_AbsentSensorShowsNA ==
    metricsShown =>
        \A i \in 1..Len(SensorField) :
            shownDay[SensorField[i]] = NULL =>
                /\ Val(rendered).metrics[i].value.number = 0
                /\ Val(rendered).metrics[i].status = "N/A"

\* C22: no division by zero occurs for any input, a prefix of 0 days and a
\* prefix with totalGdd = 0 included: avgDailyGdd (like stressRatio) is divided
\* by max(n, 1), daysRemaining is divided by avgDailyGdd only when it is
\* positive and is the sentinel 999 otherwise, and every quotient in the result
\* has a non-zero denominator.
C22_NoDivisionByZero ==
    dynamicSummary # NULL =>
        /\ summary.avg_daily_gdd.den =
                (IF summary.analysis_period = 0 THEN 1 ELSE summary.analysis_period)
        /\ summary.avg_daily_gdd.num = summary.total_gdd
        /\ summary.harvest.readiness_percent.den > 0
        /\ summary.total_gdd = 0 => summary.harvest.days_remaining = 999
        /\ summary.total_gdd > 0 =>
                summary.harvest.days_remaining =
                    Ceil(Rat((targetGdd - summary.total_gdd) * summary.avg_daily_gdd.den,
                             summary.total_gdd))
        /\ summary.analysis_period = 0 =>
                summary.yield_estimate.classification = "Excellent"

\* C22 witness: a summary over a prefix of 0 days.
C22_Witness ==
    /\ dynamicSummary # NULL
    /\ summary.analysis_period = 0
    /\ summary.avg_daily_gdd = Rat(0, 1)
    /\ summary.harvest.days_remaining = 999

\* C23: after any sequence of slider moves and forecast replacements the summary
\* held by the memo equals what a fresh computation returns for the current
\* series and dayIndex, and the stored key is the current one.
C23_MemoIsFresh ==
    /\ memoDeps = Some(Deps(forecast, dayIndex))
    /\ dynamicSummary = DynamicSummary(forecast, dayIndex, CurrentDay(forecast, dayIndex))

\* C23 witness: a two-day series that only a replacement delivers, at a day that
\* only the slider selects.
C23_Witness ==
    /\ forecast.daily = Some(<<DayHeat, DayMild>>)
    /\ dayIndex = 1
    /\ rendered # NULL
    /\ summary.total_gdd = 20

\* C24: whenever the summary is evaluated on a non-empty series, dayIndex is
\* between 0 and length(series) - 1.
C24_IndexAlwaysInRange ==
    (forecast.daily # NULL /\ Len(series) >= 1 /\ dynamicSummary # NULL) =>
        (0 <= dayIndex /\ dayIndex <= Len(series) - 1)

\* C25: for every series and valid n each of heatStressDays, coldStressDays,
\* droughtStressDays and waterlogDays is at most n.
C25_EachCounterAtMostN ==
    ValidPrefix =>
        /\ summary.heat_stress_days <= prefixLen
        /\ summary.cold_stress_days <= prefixLen
        /\ summary.drought_stress_days <= prefixLen
        /\ summary.waterlog_days <= prefixLen

\* C26: for every series with gdd >= 0 and every valid n, daysRemaining >= 0.
C26_DaysRemainingNonNegative ==
    (ValidPrefix /\ GddNonNegative(series)) => summary.harvest.days_remaining >= 0

\* C27: for every valid n, daysRemaining is 999 only when totalGdd = 0.
C27_SentinelUnambiguous ==
    ValidPrefix => (summary.harvest.days_remaining = 999 => summary.total_gdd = 0)

WindowRank(w) ==
    CASE w = "Early Season" -> 0
      [] w = "Mid-Season" -> 1
      [] w = "Near" -> 2

\* C28: for a fixed series with gdd >= 0, when the slider moves to a larger n
\* readinessPercent does not decrease and harvestWindow does not move back in
\* the order Early Season, Mid-Season, Near.
C28_HarvestProgressMonotone ==
    [][(/\ ValidPrefix
        /\ forecast' = forecast
        /\ dayIndex' > dayIndex
        /\ dayIndex' < Len(series)
        /\ GddNonNegative(series))
       => /\ dynamicSummary' # NULL
          /\ ~RatLT(Val(dynamicSummary').harvest.readiness_percent,
                    summary.harvest.readiness_percent)
          /\ WindowRank(Val(dynamicSummary').harvest.harvest_window)
                >= WindowRank(summary.harvest.harvest_window)]_vars

\* C28 witness: the window is Near at this n and was Mid-Season one day earlier.
C28_Witness ==
    /\ ValidPrefix
    /\ dayIndex >= 2
    /\ GddNonNegative(series)
    /\ summary.harvest.harvest_window = "Near"
    /\ Val(DynamicSummary(forecast, dayIndex - 1, CurrentDay(forecast, dayIndex - 1)))
            .harvest.harvest_window = "Mid-Season"

\* C29: in every summary, the excellent-conditions message implies the yield
\* estimate Excellent / 95%, and the yield estimate At Risk / 55% over at least
\* 10 analysed days implies the yield-impact warning.
C29_AdviceAgreesWithYield ==
    dynamicSummary # NULL =>
        /\ Emits(summary.recommendations, "Excellent growing conditions") =>
                summary.yield_estimate = [classification |-> "Excellent", percentage |-> "95%"]
        /\ (/\ summary.yield_estimate = [classification |-> "At Risk", percentage |-> "55%"]
            /\ summary.analysis_period >= 10) =>
                Emits(summary.recommendations, "Yield may be impacted")

\* C29 witness: At Risk over at least 10 days, at the ratio 0.35 itself.
C29_Witness ==
    /\ dynamicSummary # NULL
    /\ summary.analysis_period >= 10
    /\ summary.total_risk_days * 100 = 35 * summary.analysis_period
    /\ summary.yield_estimate.classification = "At Risk"
    /\ Emits(summary.recommendations, "Yield may be impacted")

\* C30: whenever the component renders, the number of analysed days in the
\* summary is dayIndex + 1, the figure printed as the day count and passed as
\* the maximum of every stress meter; when dayIndex is out of range the
\* component renders nothing.
C30_RenderedSummaryMatchesLabel ==
    /\ rendered # NULL =>
        /\ dynamicSummary # NULL
        /\ Val(rendered).header_days = dayIndex + 1
        /\ summary.analysis_period = Val(rendered).header_days
    /\ OutOfRange => rendered = NULL

\* C30 witness: the summary tab rendered over a proper prefix of several days.
C30_Witness ==
    /\ rendered # NULL
    /\ Val(rendered).tab = "summary"
    /\ dayIndex >= 1
    /\ prefixLen < Len(series)
    /\ summary.analysis_period = prefixLen

====
